---- MODULE Spec2Model ----
(***************************************************************************)
(* A model of preflight: the terminal navigator (issue_display.py), the    *)
(* extraction of review issues from the model's output stream (main.py),   *)
(* and the functions of display_utils.py and ai_reviewer.py on their own.  *)
(***************************************************************************)
EXTENDS Integers, Sequences, FiniteSets, TLC

(***************************************************************************)
(* Bounds of the model.                                                    *)
(***************************************************************************)
MaxIssues == 3
MaxItems == 2
MaxFragment == 3

\* len(partial_response) > 5: the shortest buffer a candidate is taken from.
MinBuffer == 5

(***************************************************************************)
(* Input units of the terminal.  sys.stdin.read(1) returns one character,  *)
(* or the empty string at end of input; a read may also raise.             *)
(***************************************************************************)
ESC == "ESC"
CTRL_C == "^C"
EOF == ""
NoInput == "<none>"
\* current_issue_index before display_issues has set it: __init__ creates no
\* such attribute, and reading it raises AttributeError.
Undefined == -1

\* Python's None.
None == "None"

\* The modes the terminal can be in when the program starts, and the mode
\* tty.setraw puts it in.
TerminalModes == {"cooked", "cbreak"}
Raw == "raw"

Units == {ESC, "[", "A", "B", "j", "k", "J", "K", CTRL_C, "x", EOF}
ReadErrors == {"KeyboardInterrupt", "EOFError"}

\* The records handed to add_issue (their content is opaque to the navigator).
NavRecords == {"r"}

\* The scenario of the three-record walk: the commands applied, in order.
Scenario == <<"Next", "Next", "Previous", "Quit">>

VARIABLES
    issues,               \* IssueDisplay.issues: sequence of DisplayIssue
    current_issue_index,  \* IssueDisplay.current_issue_index (unset by __init__)
    pc,                   \* position in display_issues: idle, read, esc1, esc2
    stdin,                \* the unit (or error) the next read of stdin delivers
    keys,                 \* the units read for the command in progress
    cmd,                  \* what the last step of the navigator applied
    screen,               \* what the last render showed
    raised,               \* the exception the last call let escape
    matched,              \* how much of Scenario this session has followed
    term,                 \* the terminal: its mode, getch's old_settings (None
                          \* outside getch), and the mode display_issues found
    output,               \* the text the generation source will produce, in all
    made,                 \* how that text was put together: prefix, items, suffix,
                          \* and whether it has the array at all
    pulled,               \* the number of characters consumed from the source
    partial_response,     \* process_model_output: the extraction buffer
    open_brackets,        \* process_model_output: the brace depth
    full_response,        \* process_model_output: the text accumulated so far
    emitted,              \* the issues the incremental pass has printed
    attempts,             \* the calls of json.loads the incremental pass has made
    phase,                \* where the run is: stream, returned, failed, parsed
    run,                  \* what the final parse did: saved rows, exit code, ...
    call,                 \* a call of one function on its own: name, arguments
    ret                   \* what that call returned or raised, once it is done

navVars == <<issues, current_issue_index, pc, stdin, keys, cmd, screen, raised, matched,
            term>>

streamVars == <<output, made, pulled, partial_response, open_brackets, full_response,
                emitted, attempts, phase, run>>

callVars == <<call, ret>>

vars == <<navVars, streamVars, callVars>>

(***************************************************************************)
(* Pure helpers.                                                           *)
(***************************************************************************)
\* Python's % on integers, for a positive divisor: the result is in 0..n-1.
PyMod(a, n) == ((a % n) + n) % n

\* str.lower() on one input unit.
Lower(u) ==
    CASE u = "J" -> "j"
      [] u = "K" -> "k"
      [] u = "A" -> "a"
      [] u = "B" -> "b"
      [] OTHER -> u

NextIndexNoWrap(c, n) == IF c + 1 < n THEN c + 1 ELSE c

NextIndex(c, n) == PyMod(c + 1, n)

PrevIndex(c, n) == PyMod(c - 1, n)

DisplayIssueWatched(r) == [issue |-> r, watched |-> TRUE]

\* DisplayIssue(issue=issue, watched=False), as add_issue builds it.
DisplayIssue(r) == [issue |-> r, watched |-> FALSE]

\* The indices (0-based, as the cursor) of the records whose flag is set.
Seen(iss) == {i \in 0..(Len(iss) - 1) : iss[i + 1].watched}

UnwatchedCount(iss) == Cardinality({i \in 1..Len(iss) : ~iss[i].watched})

MarkWatchedOnly(iss, c) ==
    [i \in 1..Len(iss) |-> [iss[i] EXCEPT !.watched = (i = c + 1)]]

\* display_issue.watched = True for the record at the cursor.
MarkWatched(iss, c) == [iss EXCEPT ![c + 1].watched = TRUE]

TitleBeforeMark(iss, c) ==
    [index |-> c + 1, total |-> Len(iss), unwatched |-> UnwatchedCount(iss)]

\* The title update_display prints, computed after the flag is set.
Title(iss, c) ==
    LET marked == MarkWatched(iss, c)
    IN [index |-> c + 1, total |-> Len(marked), unwatched |-> UnwatchedCount(marked)]

Blank == [index |-> 0, total |-> 0, unwatched |-> 0]

\* How far the commands applied in this session follow Scenario: the number
\* of its commands matched so far, or -1 once the session has left it.
FollowScenario(m, c) ==
    IF m >= 0 /\ m < Len(Scenario) /\ Scenario[m + 1] = c THEN m + 1 ELSE 0 - 1

DispatchInterruptIgnored(u) ==
    IF u \in ReadErrors THEN "Quit"
    ELSE IF u = ESC THEN "Esc"
    ELSE IF Lower(u) = "j" THEN "Next"
    ELSE IF Lower(u) = "k" THEN "Previous"
    ELSE "Ignored"

DispatchOtherQuits(u) ==
    IF u \in ReadErrors THEN "Quit"
    ELSE IF u = ESC THEN "Esc"
    ELSE IF Lower(u) = "j" THEN "Next"
    ELSE IF Lower(u) = "k" THEN "Previous"
    ELSE "Quit"

\* The dispatch on the first unit of an iteration (lines 88-117).
Dispatch(u) ==
    IF u \in ReadErrors THEN "Quit"
    ELSE IF u = ESC THEN "Esc"
    ELSE IF Lower(u) = "j" THEN "Next"
    ELSE IF Lower(u) = "k" THEN "Previous"
    ELSE IF u = CTRL_C THEN "Quit"
    ELSE "Ignored"

\* The dispatch on the unit read after an escape (lines 94-106).
DispatchEsc1(u) ==
    IF u \in ReadErrors THEN "Quit"
    ELSE IF u = "[" THEN "More"
    ELSE "Quit"

DispatchEsc2UnknownIgnored(u) ==
    IF u \in ReadErrors THEN "Quit"
    ELSE IF u = "A" THEN "Previous"
    ELSE IF u = "B" THEN "Next"
    ELSE "Ignored"

\* The dispatch on the unit read after escape and '[' (lines 96-103).
DispatchEsc2(u) ==
    IF u \in ReadErrors THEN "Quit"
    ELSE IF u = "A" THEN "Previous"
    ELSE IF u = "B" THEN "Next"
    ELSE "Quit"

\* The cursor a command leaves, from cursor c over n records.
Target(command, c, n) ==
    CASE command = "Next" -> NextIndex(c, n)
      [] command = "Previous" -> PrevIndex(c, n)
      [] OTHER -> c

(***************************************************************************)
(* The navigator.                                                          *)
(***************************************************************************)
NavInit ==
    /\ issues = <<>>
    /\ current_issue_index = Undefined
    /\ pc = "idle"
    /\ stdin = NoInput
    /\ keys = <<>>
    /\ cmd = "None"
    /\ screen = Blank
    /\ raised = "none"
    /\ matched = 0 - 1
    /\ \E mode \in TerminalModes :
          term = [mode |-> mode, old_settings |-> None, at_entry |-> None]

\* A key is pressed (or end of input is reached) while nothing is pending.
KeyArrives(u) ==
    /\ stdin = NoInput
    /\ stdin' = u
    /\ UNCHANGED <<issues, current_issue_index, pc, keys, cmd, screen, raised, matched,
                   term>>
    /\ UNCHANGED <<streamVars, callVars>>

\* An interrupt or a read error hits the read the loop is blocked in.
ReadFails(e) ==
    /\ pc # "idle"
    /\ term.old_settings # None
    /\ stdin = NoInput
    /\ stdin' = e
    /\ UNCHANGED <<issues, current_issue_index, pc, keys, cmd, screen, raised, matched,
                   term>>
    /\ UNCHANGED <<streamVars, callVars>>

add_issue(r) ==
    /\ pc = "idle"
    /\ Len(issues) < MaxIssues
    /\ issues' = Append(issues, DisplayIssue(r))
    /\ cmd' = "add_issue"
    /\ raised' = "none"
    /\ UNCHANGED <<current_issue_index, pc, stdin, keys, screen, matched, term>>
    /\ UNCHANGED <<streamVars, callVars>>

\* update_display called on its own, outside the browsing loop.
update_display ==
    /\ pc = "idle"
    /\ cmd' = "update_display"
    /\ IF issues = <<>>
       THEN /\ raised' = "none"
            /\ UNCHANGED <<issues, screen>>
       ELSE IF current_issue_index = Undefined
       THEN /\ raised' = "AttributeError"
            /\ UNCHANGED <<issues, screen>>
       ELSE /\ raised' = "none"
            /\ issues' = MarkWatched(issues, current_issue_index)
            /\ screen' = Title(issues, current_issue_index)
    /\ UNCHANGED <<current_issue_index, pc, stdin, keys, matched, term>>
    /\ UNCHANGED <<streamVars, callVars>>

\* display_issues up to its first read: the empty check, the cursor reset
\* and the first render.
display_issues ==
    /\ pc = "idle"
    /\ cmd' = "display_issues"
    /\ raised' = "none"
    /\ keys' = <<>>
    /\ IF issues = <<>>
       THEN UNCHANGED <<issues, current_issue_index, pc, screen, matched, term>>
       ELSE /\ current_issue_index' = 0
            /\ issues' = MarkWatched(issues, 0)
            /\ screen' = Title(issues, 0)
            /\ pc' = "read"
            /\ matched' = 0
            /\ term' = [term EXCEPT !.at_entry = term.mode]
    /\ UNCHANGED stdin
    /\ UNCHANGED <<streamVars, callVars>>

ApplyQuitRewinds(command) ==
    /\ cmd' = command
    /\ matched' = FollowScenario(matched, command)
    /\ IF command = "Quit"
       THEN /\ pc' = "idle"
            /\ current_issue_index' = 0
            /\ UNCHANGED <<issues, screen>>
       ELSE LET c == Target(command, current_issue_index, Len(issues))
            IN  /\ current_issue_index' = c
                /\ issues' = MarkWatched(issues, c)
                /\ screen' = Title(issues, c)
                /\ pc' = "read"

\* What the loop does with a completed command: Quit is break, and the loop
\* ends; anything else sets the cursor and comes round to update_display.
Apply(command) ==
    /\ cmd' = command
    /\ matched' = FollowScenario(matched, command)
    /\ IF command = "Quit"
       THEN /\ pc' = "idle"
            /\ UNCHANGED <<issues, current_issue_index, screen>>
       ELSE LET c == Target(command, current_issue_index, Len(issues))
            IN  /\ current_issue_index' = c
                /\ issues' = MarkWatched(issues, c)
                /\ screen' = Title(issues, c)
                /\ pc' = "read"

RestoreSkipped(mode, old_settings) == mode

\* The finally clause of getch (lines 19-20): tcsetattr with old_settings.
Restore(mode, old_settings) == old_settings

\* getch up to its read (lines 14-17): the settings are saved and the
\* terminal is put in raw mode; sys.stdin.read(1) then waits for a unit.
getch_setraw ==
    /\ pc # "idle"
    /\ term.old_settings = None
    /\ term' = [term EXCEPT !.old_settings = term.mode, !.mode = Raw]
    /\ UNCHANGED <<issues, current_issue_index, pc, stdin, keys, cmd, screen, raised,
                   matched>>
    /\ UNCHANGED <<streamVars, callVars>>

\* The rest of getch (lines 17-21): the read returns a unit or raises, and
\* in either case the finally clause runs before getch is left.
getch_read ==
    /\ term.old_settings # None
    /\ stdin # NoInput
    /\ stdin' = NoInput
    /\ term' = [term EXCEPT !.mode = Restore(term.mode, term.old_settings),
                            !.old_settings = None]

\* A unit that only extends the sequence being read: the loop reads on.
ReadOn(position) ==
    /\ pc' = position
    /\ cmd' = "None"
    /\ UNCHANGED <<issues, current_issue_index, screen, matched>>

\* The first read of an iteration (line 89) and the dispatch on it.
ReadKey ==
    /\ pc = "read"
    /\ getch_read
    /\ keys' = <<stdin>>
    /\ raised' = "none"
    /\ UNCHANGED <<streamVars, callVars>>
    /\ IF Dispatch(stdin) = "Esc" THEN ReadOn("esc1") ELSE Apply(Dispatch(stdin))

\* The read after an escape (line 94).
ReadEsc1 ==
    /\ pc = "esc1"
    /\ getch_read
    /\ keys' = Append(keys, stdin)
    /\ raised' = "none"
    /\ UNCHANGED <<streamVars, callVars>>
    /\ IF DispatchEsc1(stdin) = "More" THEN ReadOn("esc2") ELSE Apply(DispatchEsc1(stdin))

\* The read after escape and '[' (line 96).
ReadEsc2 ==
    /\ pc = "esc2"
    /\ getch_read
    /\ keys' = Append(keys, stdin)
    /\ raised' = "none"
    /\ UNCHANGED <<streamVars, callVars>>
    /\ Apply(DispatchEsc2(stdin))

\* The steps the navigator itself takes inside display_issues.
NavigatorStep == getch_setraw \/ ReadKey \/ ReadEsc1 \/ ReadEsc2

NavNext ==
    \/ \E u \in Units : KeyArrives(u)
    \/ \E e \in ReadErrors : ReadFails(e)
    \/ \E r \in NavRecords : add_issue(r)
    \/ update_display
    \/ display_issues
    \/ getch_setraw
    \/ ReadKey
    \/ ReadEsc1
    \/ ReadEsc2

(***************************************************************************)
(* Text.  A text is a sequence of characters.  The JSON the model emits is *)
(* written in a compact alphabet: inside an object each character is one   *)
(* member, key and value together ("a"/"b": file, "l" and the value after  *)
(* it: line, "s": start, "e": end, "v": severity, "d": description, "g":   *)
(* suggestion, "c": codeSnippet); "1" is a number; '[' ',' ']' '{' '}' are *)
(* themselves; any other character ("x") is free text.                     *)
(***************************************************************************)
RECURSIVE FindFrom(_, _, _)
FindFrom(s, ch, i) ==
    IF i > Len(s) THEN 0 - 1
    ELSE IF s[i] = ch THEN i - 1
    ELSE FindFrom(s, ch, i + 1)

\* str.find: the 0-based index of the first ch in s, or -1.
Find(s, ch) == FindFrom(s, ch, 1)

RECURSIVE RFindFrom(_, _, _)
RFindFrom(s, ch, i) ==
    IF i < 1 THEN 0 - 1
    ELSE IF s[i] = ch THEN i - 1
    ELSE RFindFrom(s, ch, i - 1)

\* str.rfind: the 0-based index of the last ch in s, or -1.
RFind(s, ch) == RFindFrom(s, ch, Len(s))

\* Python's s[a:b]: negative indices count from the end, and both are
\* clamped to the text.
PySlice(s, a, b) ==
    LET n == Len(s)
        lo0 == IF a < 0 THEN a + n ELSE a
        hi0 == IF b < 0 THEN b + n ELSE b
        lo == IF lo0 < 0 THEN 0 ELSE IF lo0 > n THEN n ELSE lo0
        hi == IF hi0 < 0 THEN 0 ELSE IF hi0 > n THEN n ELSE hi0
    IN  IF lo >= hi THEN <<>> ELSE SubSeq(s, lo + 1, hi)

\* Python's s[a:].
PySliceFrom(s, a) == PySlice(s, a, Len(s))

(***************************************************************************)
(* json.loads on the compact alphabet: a recursive-descent decoder, which  *)
(* fails (JSONDecodeError) on anything that is not exactly one value.      *)
(***************************************************************************)
MemberKey(ch) ==
    CASE ch \in {"a", "b"} -> "file"
      [] ch = "s" -> "start"
      [] ch = "e" -> "end"
      [] ch = "v" -> "severity"
      [] ch = "d" -> "description"
      [] ch = "g" -> "suggestion"
      [] ch = "c" -> "codeSnippet"

MemberValue(ch) ==
    CASE ch \in {"a", "b", "d", "g", "c"} -> ch
      [] ch = "s" -> 1
      [] ch = "e" -> 2
      [] ch = "v" -> "HIGH"

SimpleMembers == {"a", "b", "s", "e", "v", "d", "g", "c"}

Num == [kind |-> "num"]
Arr(elems) == [kind |-> "arr", elems |-> elems]
Obj(m) == [kind |-> "obj", m |-> m]
EmptyDict == [k \in {} |-> 0]

Parsed(v, next) == [ok |-> TRUE, val |-> v, next |-> next]
SyntaxError == [ok |-> FALSE]

\* dict assignment: the key is added, or its value replaced.
SetKey(m, k, v) == [x \in DOMAIN m \cup {k} |-> IF x = k THEN v ELSE m[x]]

RECURSIVE ParseValue(_, _)
RECURSIVE ParseElements(_, _, _)
RECURSIVE ParseMembers(_, _, _)
ParseValue(t, i) ==
    IF i > Len(t) THEN SyntaxError
    ELSE IF t[i] = "{" THEN ParseMembers(t, i + 1, EmptyDict)
    ELSE IF t[i] = "["
    THEN IF i + 1 <= Len(t) /\ t[i + 1] = "]"
         THEN Parsed(Arr(<<>>), i + 2)
         ELSE ParseElements(t, i + 1, <<>>)
    ELSE IF t[i] = "1" THEN Parsed(Num, i + 1)
    ELSE SyntaxError

ParseElements(t, i, acc) ==
    LET r == ParseValue(t, i)
    IN  IF ~r.ok THEN SyntaxError
        ELSE IF r.next > Len(t) THEN SyntaxError
        ELSE IF t[r.next] = "," THEN ParseElements(t, r.next + 1, Append(acc, r.val))
        ELSE IF t[r.next] = "]" THEN Parsed(Arr(Append(acc, r.val)), r.next + 1)
        ELSE SyntaxError

ParseMembers(t, i, m) ==
    IF i > Len(t) THEN SyntaxError
    ELSE IF t[i] = "}" THEN Parsed(Obj(m), i + 1)
    ELSE IF t[i] \in SimpleMembers
    THEN ParseMembers(t, i + 1, SetKey(m, MemberKey(t[i]), MemberValue(t[i])))
    ELSE IF t[i] = "l"
    THEN LET r == ParseValue(t, i + 1)
         IN  IF ~r.ok THEN SyntaxError
             ELSE ParseMembers(t, r.next, SetKey(m, "line", r.val))
    ELSE SyntaxError

\* json.loads(text): the value, or a JSONDecodeError.
JsonLoads(t) ==
    LET r == ParseValue(t, 1)
    IN  IF r.ok /\ r.next = Len(t) + 1
        THEN [ok |-> TRUE, val |-> r.val]
        ELSE [ok |-> FALSE, error |-> "JSONDecodeError"]

(***************************************************************************)
(* ReviewIssue.from_dict.                                                  *)
(***************************************************************************)
RequiredFields == {"file", "line", "severity", "description", "suggestion"}
AllFields == RequiredFields \cup {"codeSnippet"}

Raises(e) == [ok |-> FALSE, error |-> e]

from_dictDefaults(v) ==
    IF v.kind # "obj" THEN Raises("TypeError")
    ELSE IF "line" \notin DOMAIN v.m THEN Raises("KeyError")
    ELSE IF v.m["line"].kind # "obj" THEN Raises("TypeError")
    ELSE IF DOMAIN v.m["line"].m # {"start", "end"} THEN Raises("TypeError")
    ELSE [ok |-> TRUE,
          issue |-> [k \in AllFields |->
                        IF k = "line"
                        THEN [start |-> v.m["line"].m["start"],
                              end |-> v.m["line"].m["end"]]
                        ELSE IF k \in DOMAIN v.m THEN v.m[k] ELSE None]]

\* LineRange(**data["line"]) and cls(**data): a missing or an unexpected
\* keyword is a TypeError, a missing "line" a KeyError.
from_dict(v) ==
    IF v.kind # "obj" THEN Raises("TypeError")
    ELSE IF "line" \notin DOMAIN v.m THEN Raises("KeyError")
    ELSE IF v.m["line"].kind # "obj" THEN Raises("TypeError")
    ELSE IF DOMAIN v.m["line"].m # {"start", "end"} THEN Raises("TypeError")
    ELSE IF ~(RequiredFields \subseteq DOMAIN v.m) THEN Raises("TypeError")
    ELSE IF ~(DOMAIN v.m \subseteq AllFields) THEN Raises("TypeError")
    ELSE [ok |-> TRUE,
          issue |-> [file |-> v.m["file"],
                     line |-> [start |-> v.m["line"].m["start"],
                               end |-> v.m["line"].m["end"]],
                     severity |-> v.m["severity"],
                     description |-> v.m["description"],
                     suggestion |-> v.m["suggestion"],
                     codeSnippet |-> IF "codeSnippet" \in DOMAIN v.m
                                     THEN v.m["codeSnippet"] ELSE None]]

(***************************************************************************)
(* The texts the generation source produces: free text, an array of items, *)
(* free text.                                                              *)
(***************************************************************************)
RecA == <<"{", "a", "l", "{", "s", "e", "}", "v", "d", "g", "}">>
RecB == <<"{", "b", "l", "{", "s", "e", "}", "v", "d", "g", "c", "}">>
RecNoSeverity == <<"{", "a", "l", "{", "s", "e", "}", "d", "g", "}">>
RecNoEnd == <<"{", "b", "l", "{", "s", "}", "v", "d", "g", "}">>

ValidItems == {RecA, RecB}
Items == ValidItems \cup {RecNoSeverity, RecNoEnd}

Noises == {<<>>, <<"x">>, <<"x", "[", "1", "]", "x">>, <<"]">>, <<"[">>,
           <<"{", "}">>, <<"x", "}">>}

RECURSIVE JoinItems(_)
JoinItems(items) ==
    IF items = <<>> THEN <<>>
    ELSE IF Len(items) = 1 THEN items[1]
    ELSE items[1] \o <<",">> \o JoinItems(Tail(items))

\* The JSON text of an array of items.
ArrayText(items) == <<"[">> \o JoinItems(items) \o <<"]">>

ItemLists == UNION {[1..n -> Items] : n \in 0..MaxItems}

\* The issue a valid item stands for, read off the item itself.
IssueOf(item) ==
    [file |-> item[2],
     line |-> [start |-> 1, end |-> 2],
     severity |-> "HIGH",
     description |-> "d",
     suggestion |-> "g",
     codeSnippet |-> IF item[Len(item) - 1] = "c" THEN "c" ELSE None]

(***************************************************************************)
(* process_model_output: the incremental pass.                             *)
(***************************************************************************)
BraceDeltaIgnoresClose(ch) == IF ch = "{" THEN 1 ELSE 0

\* Lines 154-155: what a character adds to open_brackets.
BraceDelta(ch) == IF ch = "{" THEN 1 ELSE IF ch = "}" THEN 0 - 1 ELSE 0

ShouldDecodeAtFive(depth, partial) == depth = 0 /\ Len(partial) >= MinBuffer

\* Line 157: whether json.loads is tried after a character.
ShouldDecode(depth, partial) == depth = 0 /\ Len(partial) > MinBuffer

\* Lines 158-164: partial_response[start_index: end_index + 1].
Candidate(partial) ==
    PySlice(partial, Find(partial, "{"), RFind(partial, "}") + 1)

RemainderEmpty(partial) == <<>>

\* Line 170: partial_response[end_index + 1:].
Remainder(partial) == PySliceFrom(partial, RFind(partial, "}") + 1)

\* One turn of the inner loop (lines 151-172) on the state
\* [partial_response, open_brackets, emitted, error]; consumed counts the
\* characters taken so far and attempts logs the calls of json.loads: after
\* which character, on which buffer and depth, with which candidate and
\* what came of it.
ConsumeChar(st, ch) ==
    IF st.error # None THEN st
    ELSE
    LET partial == Append(st.partial_response, ch)
        depth == st.open_brackets + BraceDelta(ch)
        kept == [st EXCEPT !.partial_response = partial, !.open_brackets = depth,
                           !.consumed = @ + 1]
    IN  IF ~ShouldDecode(depth, partial) THEN kept
        ELSE
        LET data == JsonLoads(Candidate(partial))
            Logged(outcome) ==
                Append(st.attempts,
                       [at |-> kept.consumed, buffer |-> partial, depth |-> depth,
                        candidate |-> Candidate(partial), outcome |-> outcome])
        IN  IF ~data.ok
            THEN [kept EXCEPT !.attempts = Logged("JSONDecodeError")]
            ELSE IF ~({"severity", "file", "description"} \subseteq DOMAIN data.val.m)
            THEN [kept EXCEPT !.error = "KeyError", !.attempts = Logged("KeyError")]
            ELSE [kept EXCEPT
                    !.emitted = Append(@, [file |-> data.val.m["file"],
                                           description |-> data.val.m["description"],
                                           severity |-> data.val.m["severity"]]),
                    !.partial_response = Remainder(partial),
                    !.attempts = Logged("emitted")]

RECURSIVE ConsumeChars(_, _)
ConsumeChars(st, text) ==
    IF text = <<>> THEN st
    ELSE ConsumeChars(ConsumeChar(st, Head(text)), Tail(text))

ConsumeFragmentFreshBuffer(st, frag) ==
    LET after == ConsumeChars([st EXCEPT !.partial_response = <<>>], frag)
    IN  IF after.error # None THEN after
        ELSE [after EXCEPT !.full_response = @ \o frag]

ConsumeFragmentOverwrites(st, frag) ==
    LET after == ConsumeChars(st, frag)
    IN  IF after.error # None THEN after
        ELSE [after EXCEPT !.full_response = frag]

\* One turn of the outer loop (lines 148-174): the fragment's characters,
\* then the fragment appended to full_response.
ConsumeFragment(st, frag) ==
    LET after == ConsumeChars(st, frag)
    IN  IF after.error # None THEN after
        ELSE [after EXCEPT !.full_response = @ \o frag]

\* The state the loops start from (lines 145-147).
Start ==
    [partial_response |-> <<>>, open_brackets |-> 0, full_response |-> <<>>,
     emitted |-> <<>>, error |-> None, consumed |-> 0, attempts |-> <<>>]

(***************************************************************************)
(* The final parse of review (lines 73-121).                               *)
(***************************************************************************)
\* shown is the set of things the run has printed for the user; error is
\* the exception the decoding of the array span ended with, if any.
NotRun == [exit_code |-> 0, saved |-> <<>>, shown |-> {}, found |-> FALSE,
           error |-> None, report |-> FALSE, notified |-> FALSE]

\* The parameters of generate_mock_report that have no default.
ReportParameters == {"path", "issues", "commit_hash", "branch", "project"}

\* The call generate_mock_report(report_path) of line 100 binds one of them.
generate_mock_report(given) ==
    IF ReportParameters \subseteq given
    THEN [ok |-> TRUE, error |-> None]
    ELSE Raises("TypeError")

RECURSIVE SaveAll(_, _)
\* The loop over issues_data (lines 90-93): the rows saved, and the error
\* that cut the loop short, if any.
SaveAll(elems, saved) ==
    IF elems = <<>> THEN [saved |-> saved, error |-> None]
    ELSE LET r == from_dict(Head(elems))
         IN  IF ~r.ok THEN [saved |-> saved, error |-> r.error]
             ELSE SaveAll(Tail(elems), Append(saved, r.issue))

ArraySpanFirstClose(text) ==
    [start_index |-> Find(text, "["), end_index |-> Find(text, "]")]

\* Lines 77-78: the first '[' and the last ']' of the full text.
ArraySpan(text) ==
    [start_index |-> Find(text, "["), end_index |-> RFind(text, "]")]

SpanFoundUnordered(start_index, end_index) ==
    start_index # 0 - 1 /\ end_index # 0 - 1

\* Line 80: both markers were found, the closing one after the opening one.
SpanFound(start_index, end_index) ==
    start_index # 0 - 1 /\ end_index # 0 - 1 /\ end_index > start_index

\* Lines 77-121, given the text process_model_output returned.
FinalParse(text) ==
    LET span == ArraySpan(text)
        start_index == span.start_index
        end_index == span.end_index
    IN  IF ~SpanFound(start_index, end_index)
        THEN \* Lines 111-113: a warning and the raw response; review returns.
             [NotRun EXCEPT !.shown = {"warning", "raw response"}]
        ELSE
        LET json_text == PySlice(text, start_index, end_index + 1)
            data == JsonLoads(json_text)
        IN  IF ~data.ok
            THEN \* Lines 107-110 print the extracted text and raise Exit(1),
                 \* an Exception, which the last handler (118-121) reports
                 \* in its turn before it raises Exit(1) again.
                 [NotRun EXCEPT !.exit_code = 1, !.found = TRUE,
                                !.error = "JSONDecodeError",
                                !.shown = {"extracted text", "traceback"}]
            ELSE IF data.val.kind # "arr"
            THEN [NotRun EXCEPT !.exit_code = 1, !.found = TRUE,
                                !.error = "TypeError", !.shown = {"traceback"}]
            ELSE
            LET done == SaveAll(data.val.elems, <<>>)
            IN  IF done.error # None
                THEN \* from_dict raised: neither error is a JSONDecodeError,
                     \* so the last handler (118-121) takes it.
                     [NotRun EXCEPT !.exit_code = 1, !.found = TRUE,
                                    !.error = done.error, !.saved = done.saved,
                                    !.shown = {"traceback"}]
                ELSE IF ~generate_mock_report({"path"}).ok
                THEN \* Line 100, after "Analysis complete" (line 95).
                     [NotRun EXCEPT !.exit_code = 1, !.found = TRUE,
                                    !.saved = done.saved,
                                    !.shown = {"analysis complete", "traceback"}]
                ELSE [NotRun EXCEPT !.found = TRUE, !.saved = done.saved,
                                    !.shown = {"analysis complete"},
                                    !.report = TRUE, !.notified = TRUE]

(***************************************************************************)
(* The run from the call of process_model_output on.                       *)
(***************************************************************************)
Compose(prefix, items, suffix) == prefix \o ArrayText(items) \o suffix

\* The texts the model can produce: noise around an array of items, or, when
\* array is FALSE, noise alone.
StreamInit ==
    /\ \E prefix \in Noises, suffix \in Noises, items \in ItemLists, array \in BOOLEAN :
          /\ array \/ items = <<>>
          /\ made = [prefix |-> prefix, items |-> items, suffix |-> suffix,
                     array |-> array]
          /\ output = IF array THEN Compose(prefix, items, suffix)
                      ELSE prefix \o suffix
    /\ pulled = 0
    /\ partial_response = Start.partial_response
    /\ open_brackets = Start.open_brackets
    /\ full_response = Start.full_response
    /\ emitted = Start.emitted
    /\ attempts = Start.attempts
    /\ phase = "stream"
    /\ run = NotRun

Current ==
    [partial_response |-> partial_response, open_brackets |-> open_brackets,
     full_response |-> full_response, emitted |-> emitted, error |-> None,
     consumed |-> pulled, attempts |-> attempts]

\* The source yields its next fragment, of k characters, and the loop of
\* process_model_output consumes it.
Pull(k) ==
    /\ phase = "stream"
    /\ pulled + k <= Len(output)
    /\ LET after == ConsumeFragment(Current, SubSeq(output, pulled + 1, pulled + k))
       IN  /\ partial_response' = after.partial_response
           /\ open_brackets' = after.open_brackets
           /\ full_response' = after.full_response
           /\ emitted' = after.emitted
           /\ attempts' = after.attempts
           /\ pulled' = pulled + k
           /\ IF after.error # None
              THEN /\ phase' = "failed"
                   /\ run' = [NotRun EXCEPT !.exit_code = 1, !.shown = {"traceback"}]
              ELSE /\ phase' = "stream"
                   /\ UNCHANGED run
    /\ UNCHANGED <<output, made>>
    /\ UNCHANGED <<navVars, callVars>>

\* The source is exhausted: process_model_output returns full_response.
EndOfStream ==
    /\ phase = "stream"
    /\ pulled = Len(output)
    /\ phase' = "returned"
    /\ UNCHANGED <<output, made, pulled, partial_response, open_brackets,
                   full_response, emitted, attempts, run>>
    /\ UNCHANGED <<navVars, callVars>>

\* review parses the final response.
ParseFinalResponse ==
    /\ phase = "returned"
    /\ run' = FinalParse(full_response)
    /\ phase' = "parsed"
    /\ UNCHANGED <<output, made, pulled, partial_response, open_brackets,
                   full_response, emitted, attempts>>
    /\ UNCHANGED <<navVars, callVars>>

StreamNext ==
    \/ \E k \in 1..MaxFragment : Pull(k)
    \/ EndOfStream
    \/ ParseFinalResponse

StreamIdle ==
    /\ output = <<>>
    /\ made = [prefix |-> <<>>, items |-> <<>>, suffix |-> <<>>, array |-> FALSE]
    /\ pulled = 0
    /\ partial_response = <<>>
    /\ open_brackets = 0
    /\ full_response = <<>>
    /\ emitted = <<>>
    /\ attempts = <<>>
    /\ phase = "off"
    /\ run = NotRun

(***************************************************************************)
(* Calls of get_color, ReviewIssue.from_dict, analyze_diff and review, on  *)
(* arguments drawn from bounded sets.  A label is a sequence of            *)
(* characters.                                                             *)
(***************************************************************************)
LowerCase == 
    <<"a", "b", "c", "d", "e", "f", "g", "h", "i", "j", "k", "l", "m">> \o
    <<"n", "o", "p", "q", "r", "s", "t", "u", "v", "w", "x", "y", "z">>
UpperCase == 
    <<"A", "B", "C", "D", "E", "F", "G", "H", "I", "J", "K", "L", "M">> \o
    <<"N", "O", "P", "Q", "R", "S", "T", "U", "V", "W", "X", "Y", "Z">>

\* str.upper and str.lower on one character: a letter changes case, any
\* other character is kept.
UpperChar(ch) ==
    IF \E i \in 1..Len(LowerCase) : LowerCase[i] = ch
    THEN UpperCase[CHOOSE i \in 1..Len(LowerCase) : LowerCase[i] = ch]
    ELSE ch

LowerChar(ch) ==
    IF \E i \in 1..Len(UpperCase) : UpperCase[i] = ch
    THEN LowerCase[CHOOSE i \in 1..Len(UpperCase) : UpperCase[i] = ch]
    ELSE ch

\* str.upper.
Upper(label) == [i \in 1..Len(label) |-> UpperChar(label[i])]

CRITICAL == <<"C", "R", "I", "T", "I", "C", "A", "L">>
HIGH == <<"H", "I", "G", "H">>
MEDIUM == <<"M", "E", "D", "I", "U", "M">>
LOW == <<"L", "O", "W">>
INFO == <<"I", "N", "F", "O">>

\* The dictionary of get_color.
SeverityColors ==
    (CRITICAL :> "bold red") @@ (HIGH :> "red") @@ (MEDIUM :> "yellow") @@
    (LOW :> "cyan") @@ (INFO :> "blue")

get_colorCaseSensitive(severity) ==
    IF severity \in DOMAIN SeverityColors THEN SeverityColors[severity] ELSE "default"

\* get_color: the dictionary's entry for severity.upper(), or "default".
get_color(severity) ==
    LET key == Upper(severity)
    IN  IF key \in DOMAIN SeverityColors THEN SeverityColors[key] ELSE "default"

\* The labels get_color is called on: every spelling, in upper and lower
\* case letters, of the five names and of three words that are no names.
URGENT == <<"U", "R", "G", "E", "N", "T">>
Words == {CRITICAL, HIGH, MEDIUM, LOW, INFO, URGENT, <<>>, HIGH \o <<" ">>}

Spellings(w) ==
    {[i \in 1..Len(w) |-> IF i \in lower THEN LowerChar(w[i]) ELSE w[i]] :
        lower \in SUBSET (1..Len(w))}

\* The dictionaries from_dict is called on: any subset of the six fields,
\* with a line that is a number or a dictionary of any subset of start and
\* end, over the line numbers 0..MaxLine.
MaxLine == 2
LineNumbers == 0..MaxLine
LineDicts == UNION {[names -> LineNumbers] : names \in SUBSET {"start", "end"}}

FieldValue(k) ==
    CASE k = "file" -> "a"
      [] k = "severity" -> "HIGH"
      [] k = "description" -> "d"
      [] k = "suggestion" -> "g"
      [] k = "codeSnippet" -> "c"

Dict(fields, line) ==
    Obj([k \in fields |-> IF k = "line" THEN line ELSE FieldValue(k)])

\* The context window of the model, and the allowance calculate_tokens adds
\* for the output.
MODEL_MAX_TOKENS == 262144
buffer_for_output == 4096

\* calculate_tokens, on the number of tokens the tokenizer returns.
calculate_tokens(input_tokens) == input_tokens + buffer_for_output

get_modelRejectsLimit(prompt_tokens) ==
    LET num_of_tokens == calculate_tokens(prompt_tokens)
    IN  IF num_of_tokens >= MODEL_MAX_TOKENS
        THEN Raises("AiModelError")
        ELSE [ok |-> TRUE, error |-> None, n_ctx |-> num_of_tokens]

\* get_model, with the model file in place: the Llama instance, or
\* AiModelError.
get_model(prompt_tokens) ==
    LET num_of_tokens == calculate_tokens(prompt_tokens)
    IN  IF num_of_tokens > MODEL_MAX_TOKENS
        THEN Raises("AiModelError")
        ELSE [ok |-> TRUE, error |-> None, n_ctx |-> num_of_tokens]

\* The parameters analyze_diff declares.
AnalyzeDiffParameters == {"diff_content"}

\* A call of analyze_diff with the given keyword arguments besides the
\* diff: an undeclared keyword is a TypeError before the body runs.
analyze_diff(keywords, prompt_tokens) ==
    IF ~(keywords \subseteq AnalyzeDiffParameters)
    THEN Raises("TypeError")
    ELSE get_model(prompt_tokens)

\* What review has done when it reaches, or fails to reach, the stream:
\* source tells whether a stream was obtained.
Outcome(exit_code, shown, error, source) ==
    [exit_code |-> exit_code, shown |-> shown, error |-> error, source |-> source,
     consumed |-> 0, saved |-> <<>>, report |-> FALSE, notified |-> FALSE]

\* review up to the stream (lines 47-63 and 118-121): blank tells whether
\* the diff is empty, prompt_tokens is the size of the prompt made from it.
review(blank, prompt_tokens) ==
    IF blank
    THEN Outcome(0, {"no differences"}, None, FALSE)
    ELSE LET r == analyze_diff({"mock"}, prompt_tokens)
         IN  IF r.ok THEN Outcome(0, {"loading"}, None, TRUE)
             ELSE IF r.error = "AiModelError"
             THEN Outcome(0, {"loading", "critical error"}, r.error, FALSE)
             ELSE Outcome(1, {"loading", "traceback"}, r.error, FALSE)

\* The prompt sizes tried: those within TokenMargin of the largest prompt
\* that fits.
TokenMargin == 3
PromptSizes ==
    {n \in (MODEL_MAX_TOKENS - buffer_for_output - TokenMargin) ..
           (MODEL_MAX_TOKENS - buffer_for_output + TokenMargin) : n >= 0}

(***************************************************************************)
(* report_generator.py.  The HTML is a sequence of pieces of text: the     *)
(* literal pieces of the templates and the values formatted into them.     *)
(***************************************************************************)
\* f"severity-{issue.severity}".
severity_class(issue) == <<"severity-", issue.severity>>

code_blockAlways(issue) ==
    <<"<div class=\"code-snippet\"><pre><code>", issue.codeSnippet,
      "</code></pre></div>">>

\* Lines 29-35: the code block of an issue whose codeSnippet is truthy
\* (neither None nor the empty string), or nothing.
code_block(issue) ==
    IF issue.codeSnippet \notin {None, ""}
    THEN <<"<div class=\"code-snippet\"><pre><code>", issue.codeSnippet,
           "</code></pre></div>">>
    ELSE <<>>

\* Lines 37-51: the block of one issue.
issue_html(issue) ==
    <<"<div class=\"issue ">> \o severity_class(issue) \o
    <<"\"><div class=\"issue-header\"><span class=\"badge ">> \o
    severity_class(issue) \o <<"\">", issue.severity,
      "</span><span class=\"file-path\">", issue.file, ":",
      ToString(issue.line.start),
      "</span></div><div class=\"issue-content\"><h3>", issue.description,
      "</h3><div class=\"suggestion\"><strong>Suggestion:</strong> ",
      issue.suggestion, "</div>">> \o
    code_block(issue) \o <<"</div></div>">>

RECURSIVE issues_htmlPrepends(_)
issues_htmlPrepends(list) ==
    IF list = <<>> THEN <<>>
    ELSE issues_htmlPrepends(Tail(list)) \o issue_html(Head(list))

RECURSIVE issues_html(_)
\* Lines 26-51: the blocks of the issues, appended in list order.
issues_html(list) ==
    IF list = <<>> THEN <<>>
    ELSE issue_html(Head(list)) \o issues_html(Tail(list))

EmptyState == "<div class=\"empty-state\">No issues found! Great job!</div>"

\* Lines 53-224: the page.  logo tells whether reports_root/img/logo.png
\* exists.
html_content(list, commit_hash, branch, project, logo) ==
    <<"<!DOCTYPE html><html><head><title>Preflight Review - ", project,
      "</title><style>...</style></head><body><header>">> \o
    (IF logo THEN <<"<img src=\"", "logo.png", "\" class=\"logo\">">> ELSE <<>>) \o
    <<"<h1>Review Report</h1><strong>Project:</strong> ", project,
      "<strong>Branch:</strong> ", branch, "<strong>Commit:</strong> ">> \o
    PySlice(commit_hash, 0, 7) \o
    <<"</header><main>">> \o
    (IF list # <<>> THEN issues_html(list) ELSE <<EmptyState>>) \o
    <<"</main></body></html>">>

\* generate_mock_report with all its parameters given: the files after it,
\* path.write_text(html_content) having created or replaced the one at path.
write_report(files, path, list, commit_hash, branch, project, logo) ==
    [f \in DOMAIN files \cup {path} |->
        IF f = path THEN html_content(list, commit_hash, branch, project, logo)
        ELSE files[f]]

\* The issues reports are made of, and the lists of at most MaxReport of
\* them.
MaxReport == 2
ReportIssues ==
    [file : {"a.py", "b.py"}, line : {[start |-> 1, end |-> 2]},
     severity : {"HIGH", "URGENT"}, description : {"d1", "d2"},
     suggestion : {"g"}, codeSnippet : {None, "", "c"}]
ReportLists == UNION {[1..n -> ReportIssues] : n \in 0..MaxReport}

(***************************************************************************)
(* The calls.                                                              *)
(***************************************************************************)
NotReturned == [done |-> FALSE]
Returned(out) == [done |-> TRUE, out |-> out]

CallIdle ==
    /\ call = [fn |-> None]
    /\ ret = NotReturned

CallInit ==
    /\ ret = NotReturned
    /\ \/ \E w \in Words : \E label \in Spellings(w) :
             call = [fn |-> "get_color", severity |-> label, word |-> w]
       \/ \E fields \in SUBSET AllFields :
             \E line \in {Num} \cup {Obj(m) : m \in LineDicts} :
                call = [fn |-> "from_dict", data |-> Dict(fields, line)]
       \/ \E n \in PromptSizes :
             call = [fn |-> "analyze_diff", tokens |-> n]
       \/ \E n \in PromptSizes, blank \in BOOLEAN :
             call = [fn |-> "review", blank |-> blank, tokens |-> n]
       \/ \E list \in ReportLists, logo \in BOOLEAN :
             call = [fn |-> "generate_mock_report", path |-> "report.html",
                     issues |-> list, logo |-> logo]

call_get_color ==
    /\ call.fn = "get_color"
    /\ ~ret.done
    /\ ret' = Returned(get_color(call.severity))
    /\ UNCHANGED <<call, navVars, streamVars>>

call_from_dict ==
    /\ call.fn = "from_dict"
    /\ ~ret.done
    /\ ret' = Returned(from_dict(call.data))
    /\ UNCHANGED <<call, navVars, streamVars>>

\* analyze_diff called as it is declared, with the diff alone.
call_analyze_diff ==
    /\ call.fn = "analyze_diff"
    /\ ~ret.done
    /\ ret' = Returned(analyze_diff({}, call.tokens))
    /\ UNCHANGED <<call, navVars, streamVars>>

call_review ==
    /\ call.fn = "review"
    /\ ~ret.done
    /\ ret' = Returned(review(call.blank, call.tokens))
    /\ UNCHANGED <<call, navVars, streamVars>>

\* generate_mock_report called with path, issues, commit_hash, branch,
\* project and reports_root, with no file at path beforehand.
call_generate_mock_report ==
    /\ call.fn = "generate_mock_report"
    /\ ~ret.done
    /\ ret' = Returned([files |->
                 write_report(EmptyDict, call.path, call.issues,
                              <<"a", "b", "c", "1", "2", "3", "4", "5">>,
                              "branch", "project", call.logo)])
    /\ UNCHANGED <<call, navVars, streamVars>>

CallNext ==
    \/ call_get_color
    \/ call_from_dict
    \/ call_analyze_diff
    \/ call_review
    \/ call_generate_mock_report

(***************************************************************************)
(* The specifications: the navigator, the extraction, the calls.           *)
(***************************************************************************)
Init == NavInit /\ StreamIdle /\ CallIdle

Next == NavNext

Spec == Init /\ [][Next]_vars

\* The extraction and the calls leave the terminal alone: one mode is enough.
StreamStart == NavInit /\ term.mode = "cooked" /\ StreamInit /\ CallIdle

SpecStream == StreamStart /\ [][StreamNext]_vars

CallStart == NavInit /\ term.mode = "cooked" /\ StreamIdle /\ CallInit

SpecCalls == CallStart /\ [][CallNext]_vars

(***************************************************************************)
(* Properties of the navigator.                                            *)
(***************************************************************************)
\* A step in which the loop reads one unit.
ReadStep == pc # "idle" /\ stdin # NoInput /\ stdin' = NoInput

NextKeys == {<<"j">>, <<"J">>, <<ESC, "[", "B">>}
PrevKeys == {<<"k">>, <<"K">>, <<ESC, "[", "A">>}

\* C1: in Browsing with N >= 1 records, the keys of Next ('j', down arrow)
\* set the cursor to (cursor + 1) mod N and the keys of Previous ('k', up
\* arrow) set it to (cursor - 1 + N) mod N, wrapping at both ends.
C1_WrapAround ==
    [][ReadStep =>
        LET n == Len(issues)
            c == current_issue_index
        IN  /\ n >= 1
            /\ keys' \in NextKeys =>
                  /\ cmd' = "Next"
                  /\ current_issue_index' = (c + 1) % n
                  /\ (c = n - 1 => current_issue_index' = 0)
            /\ keys' \in PrevKeys =>
                  /\ cmd' = "Previous"
                  /\ current_issue_index' = (c - 1 + n) % n
                  /\ (c = 0 => current_issue_index' = n - 1)
            /\ (n = 1 /\ keys' \in NextKeys \cup PrevKeys) => current_issue_index' = 0
    ]_vars

\* Next has wrapped from the last record to the first by the down arrow.
C1_Witness ==
    /\ cmd = "Next"
    /\ keys = <<ESC, "[", "B">>
    /\ Len(issues) >= 2
    /\ current_issue_index = 0

\* C2: the set of seen indices never shrinks, and a transition adds at most
\* one index to it, the one the cursor moves to.
C2_SeenMonotonic ==
    [][/\ Seen(issues) \subseteq Seen(issues')
       /\ (ReadStep /\ cmd' \in {"Next", "Previous"}) =>
              (Seen(issues') \ Seen(issues)) \subseteq {current_issue_index'}
    ]_vars

\* Two records have been seen, the second by a Next.
C2_Witness ==
    /\ cmd = "Next"
    /\ current_issue_index = 1
    /\ Seen(issues) = {0, 1}
    /\ Len(issues) = 3

\* C3: whenever the record list is non-empty the cursor is defined and
\* within 0 .. length(records) - 1.
C3_CursorInRange ==
    issues # <<>> =>
        /\ current_issue_index # Undefined
        /\ 0 <= current_issue_index
        /\ current_issue_index < Len(issues)

\* The last thing the navigator did was render a record.
Rendered ==
    \/ pc # "idle"
    \/ cmd = "update_display" /\ raised = "none" /\ issues # <<>>

\* C4: after every render the record at the cursor is seen, and the unseen
\* count shown is the number of records not seen, the displayed one excluded.
C4_RenderMarksSeen ==
    Rendered =>
        /\ issues[current_issue_index + 1].watched
        /\ screen.index = current_issue_index + 1
        /\ screen.unwatched = Cardinality((0..(Len(issues) - 1)) \ Seen(issues))
        /\ screen.unwatched <= Len(issues) - 1

\* A render that still reports unseen records.
C4_Witness ==
    /\ pc = "read"
    /\ cmd = "Next"
    /\ Len(issues) = 3
    /\ screen.unwatched = 1

\* C7: after an escape the navigator reads at most two further units:
\* escape,'[','A' applies Previous, escape,'[','B' applies Next, escape and a
\* unit other than '[' applies Quit after that one unit, and escape,'[' and a
\* unit other than 'A'/'B' applies Quit.
C7_EscapeLookahead ==
    [][(ReadStep /\ pc \in {"esc1", "esc2"}) =>
        LET n == Len(issues)
            c == current_issue_index
        IN  /\ keys' = Append(keys, stdin)
            /\ keys'[1] = ESC
            /\ pc = "esc1" =>
                  /\ Len(keys') = 2
                  /\ IF stdin = "["
                     THEN /\ pc' = "esc2"
                          /\ cmd' = "None"
                          /\ UNCHANGED <<issues, current_issue_index>>
                     ELSE /\ pc' = "idle"
                          /\ cmd' = "Quit"
            /\ pc = "esc2" =>
                  /\ Len(keys') = 3
                  /\ keys'[2] = "["
                  /\ pc' \in {"read", "idle"}
                  /\ stdin = "A" =>
                        cmd' = "Previous" /\ current_issue_index' = (c - 1 + n) % n
                  /\ stdin = "B" =>
                        cmd' = "Next" /\ current_issue_index' = (c + 1) % n
                  /\ stdin \notin {"A", "B"} => (cmd' = "Quit" /\ pc' = "idle")
    ]_vars

\* Escape, '[' and an unknown third unit have ended the session.
C7_Witness ==
    /\ keys = <<ESC, "[", "x">>
    /\ cmd = "Quit"
    /\ pc = "idle"

\* C8: with an escape read and no further unit arriving, the navigator is
\* not left waiting: it has a step of its own that falls back to Quit.
C8_LookaheadNotBlocked ==
    (pc \in {"esc1", "esc2"} /\ stdin = NoInput) => ENABLED NavigatorStep

\* C9: as the single unit of a command, 'j' applies Next, 'k' applies
\* Previous and the interrupt (Ctrl+C, or KeyboardInterrupt raised by the
\* read) applies Quit; one command is applied for the one unit.
C9_SingleUnitCommands ==
    [][(ReadStep /\ pc = "read") =>
        LET n == Len(issues)
            c == current_issue_index
        IN  /\ keys' = <<stdin>>
            /\ stdin = "j" =>
                  /\ cmd' = "Next"
                  /\ current_issue_index' = (c + 1) % n
                  /\ pc' = "read"
            /\ stdin = "k" =>
                  /\ cmd' = "Previous"
                  /\ current_issue_index' = (c - 1 + n) % n
                  /\ pc' = "read"
            /\ stdin \in {CTRL_C, "KeyboardInterrupt"} =>
                  /\ cmd' = "Quit"
                  /\ pc' = "idle"
    ]_vars

\* Ctrl+C has ended a session of more than one record.
C9_Witness ==
    /\ keys = <<CTRL_C>>
    /\ cmd = "Quit"
    /\ pc = "idle"
    /\ Len(issues) >= 2

\* C10: Quit ends the loop at once and changes neither the cursor nor any
\* seen flag, and nothing is rendered or read after it; the three-record walk
\* Next, Next, Previous, Quit from cursor 0 ends at cursor 1 with all seen.
C10_QuitChangesNothing ==
    /\ [][(ReadStep /\ cmd' = "Quit") =>
            /\ pc' = "idle"
            /\ UNCHANGED <<issues, current_issue_index, screen>>
         ]_vars
    /\ [][(pc = "idle" /\ cmd = "Quit") =>
            (cmd' = "Quit" => UNCHANGED <<issues, current_issue_index, screen, keys>>)
         ]_vars
    /\ [](cmd = "Quit" => (pc = "idle" /\ ~ENABLED NavigatorStep))
    /\ []((cmd = "Quit" /\ matched = Len(Scenario) /\ Len(issues) = 3) =>
            (current_issue_index = 1 /\ Seen(issues) = {0, 1, 2}))

\* The three-record walk has run to its Quit.
C10_Witness ==
    /\ cmd = "Quit"
    /\ matched = Len(Scenario)
    /\ Len(issues) = 3
    /\ pc = "idle"

(***************************************************************************)
(* Properties of the extraction.                                           *)
(***************************************************************************)
\* The issues the items of the generated array stand for, in array order.
ExpectedIssues == [i \in 1..Len(made.items) |-> IssueOf(made.items[i])]

AllItemsValid ==
    made.array /\ \A i \in 1..Len(made.items) : made.items[i] \in ValidItems

Contains(text, ch) == \E i \in 1..Len(text) : text[i] = ch

\* C5, as claimed: for any text containing an array of N valid records, the
\* final parse yields exactly those records, in array order, and saves them
\* in that order.
C5_AnyTextWithArray ==
    (phase = "parsed" /\ AllItemsValid) =>
        (run.found /\ run.saved = ExpectedIssues)

\* C5, amended: for any text containing an array of N valid records with no
\* '[' before the array and no ']' after it, the final parse yields exactly
\* those records, in array order, and saves them in that order.
C5_ArrayBetweenMarkers ==
    (/\ AllItemsValid
     /\ ~Contains(made.prefix, "[")
     /\ ~Contains(made.suffix, "]")) =>
        /\ FinalParse(output).found
        /\ FinalParse(output).saved = ExpectedIssues
        /\ phase = "parsed" => (run.found /\ run.saved = ExpectedIssues)

\* Two records inside free text have been saved by the final parse.
C5_Witness ==
    /\ phase = "parsed"
    /\ made = [prefix |-> <<"x">>, items |-> <<RecA, RecB>>, suffix |-> <<"x">>,
               array |-> TRUE]
    /\ Len(run.saved) = 2

\* C6: however the text is split into fragments, the incremental pass
\* returns the concatenation of the fragments, and the pass and the final
\* parse end as they do when the whole text is fed as one fragment.
C6_FragmentationInvariance ==
    LET whole == ConsumeFragment(Start, output)
    IN  /\ phase = "stream" => full_response = SubSeq(output, 1, pulled)
        /\ phase \in {"returned", "parsed"} =>
              /\ full_response = output
              /\ whole.error = None
              /\ whole.full_response = full_response
              /\ whole.emitted = emitted
        /\ phase = "parsed" => run = FinalParse(whole.full_response)
        /\ phase = "failed" => whole.error # None

\* A text longer than any one fragment has been consumed and parsed.
C6_Witness ==
    /\ phase = "parsed"
    /\ Len(output) > 2 * MaxFragment
    /\ made.items = <<RecB, RecA>>
    /\ Len(emitted) = 2
    /\ Len(run.saved) = 2

(***************************************************************************)
(* Failures of the extraction.                                             *)
(***************************************************************************)
\* C11: in the incremental pass a candidate that fails to decode, through a
\* syntax error or through a missing required field such as severity, raises
\* no error: the pass is never cut short, it runs to the end of the stream
\* and returns the full text.
C11_FailedCandidateRaisesNothing ==
    /\ phase # "failed"
    /\ phase \in {"returned", "parsed"} => full_response = output

\* C12: when the final parse locates an array span and the span fails to
\* decode, through a syntax error or through an element that lacks a
\* required field, the run shows the extracted text and ends with a
\* non-zero exit code.
C12_DecodeFailureShowsExtractedText ==
    (phase = "parsed" /\ run.found /\ run.error # None) =>
        /\ "extracted text" \in run.shown
        /\ run.exit_code # 0

\* The text has an opening bracket with a closing bracket somewhere after it.
HasArrayMarkers(text) ==
    \E i \in 1..Len(text) : \E j \in (i + 1)..Len(text) :
        text[i] = "[" /\ text[j] = "]"

\* C13: when the full text has no opening bracket, or no closing bracket
\* after it, the final parse attempts no decode, saves no record, writes no
\* report, sends no notification, shows the raw response with a warning and
\* does not end with a failure exit code.
C13_NoArrayIsInformational ==
    LET outcome == FinalParse(output)
    IN  /\ ~HasArrayMarkers(output) =>
              /\ ~outcome.found
              /\ outcome.error = None
              /\ outcome.saved = <<>>
              /\ ~outcome.report
              /\ ~outcome.notified
              /\ outcome.shown = {"warning", "raw response"}
              /\ outcome.exit_code = 0
        /\ (phase = "parsed" /\ ~HasArrayMarkers(output)) => run = outcome

\* A text whose only closing bracket comes before its only opening bracket
\* has been parsed.
C13_Witness ==
    /\ phase = "parsed"
    /\ output = <<"]", "[">>
    /\ run.shown = {"warning", "raw response"}
    /\ run.exit_code = 0

\* The array of the text is the only bracketed span in it.
CleanMarkers == ~Contains(made.prefix, "[") /\ ~Contains(made.suffix, "]")

\* C18: after a final parse that yielded the records r1..rN, the navigator
\* holds exactly r1..rN, in that order.
C18_NavigatorHoldsParsedRecords ==
    (phase = "parsed" /\ AllItemsValid /\ CleanMarkers) =>
        /\ Len(issues) = Len(run.saved)
        /\ \A i \in 1..Len(issues) : issues[i].issue = run.saved[i]

\* C19: a run in which the stream is consumed and the final parse decodes
\* valid records ends with exit code 0.
C19_SuccessfulRunExitsZero ==
    (phase = "parsed" /\ AllItemsValid /\ CleanMarkers) => run.exit_code = 0

(***************************************************************************)
(* The terminal.                                                           *)
(***************************************************************************)
\* C17: every raw read restores the terminal mode it found, whether the
\* read returns a unit or raises; so between reads, and once the loop has
\* ended (by Quit, by an interrupt or by a read error), the terminal is in
\* the mode it had when browsing started, and it is raw only inside getch.
C17_TerminalModeRestored ==
    /\ [][ (term.old_settings # None /\ term'.old_settings = None) =>
              /\ term'.mode = term.old_settings
              /\ term'.mode = term.at_entry ]_vars
    /\ [](term.old_settings = None =>
              /\ term.mode \in TerminalModes
              /\ term.at_entry # None => term.mode = term.at_entry)
    /\ [](pc = "idle" => term.old_settings = None)

\* The loop has ended on a KeyboardInterrupt raised by the read after an
\* escape, and the terminal is back in the cbreak mode it started in.
C17_Witness ==
    /\ pc = "idle"
    /\ cmd = "Quit"
    /\ keys = <<ESC, "KeyboardInterrupt">>
    /\ term = [mode |-> "cbreak", old_settings |-> None, at_entry |-> "cbreak"]

(***************************************************************************)
(* Properties of the classifier, the decoder and the set-up of the source. *)
(***************************************************************************)
\* The display class each name has, and the class of any other word.
ClassOfWord(w) ==
    CASE w = CRITICAL -> "bold red"
      [] w = HIGH -> "red"
      [] w = MEDIUM -> "yellow"
      [] w = LOW -> "cyan"
      [] w = INFO -> "blue"
      [] OTHER -> "default"

\* C14: get_color returns a class for every label; the class of a label is
\* the class of its uppercase form; each of CRITICAL, HIGH, MEDIUM, LOW,
\* INFO, however spelled in upper and lower case, has its own fixed class;
\* every other label has the default class.
C14_ClassifierTotal ==
    /\ \A v, w \in {CRITICAL, HIGH, MEDIUM, LOW, INFO} :
          /\ get_color(w) # "default"
          /\ v # w => get_color(v) # get_color(w)
    /\ (call.fn = "get_color" /\ ret.done) =>
          /\ ret.out = ClassOfWord(call.word)
          /\ ret.out = get_color(Upper(call.severity))
          /\ Upper(call.severity) = call.word

\* get_color has been called on "Medium".
C14_Witness ==
    /\ call.fn = "get_color"
    /\ call.severity = <<"M", "e", "d", "i", "u", "m">>
    /\ ret.done
    /\ ret.out = "yellow"

\* C15: every record from_dict returns has a line with start <= end and
\* both positive; a dictionary whose line is otherwise gives no record.
C15_LineRangeValid ==
    (call.fn = "from_dict" /\ ret.done /\ ret.out.ok) =>
        /\ ret.out.issue.line.start <= ret.out.issue.line.end
        /\ ret.out.issue.line.start > 0
        /\ ret.out.issue.line.end > 0

\* The dictionary has the five required fields, and its line is a
\* dictionary with start and end.
Complete(data) ==
    /\ data.kind = "obj"
    /\ {"file", "line", "severity", "description", "suggestion"} \subseteq DOMAIN data.m
    /\ data.m["line"].kind = "obj"
    /\ {"start", "end"} \subseteq DOMAIN data.m["line"].m

C20_OverCapacityAborts ==
    /\ (call.fn = "analyze_diff" /\ ret.done) =>
          /\ (call.tokens + 4096 > 262144) <=> ~ret.out.ok
          /\ ~ret.out.ok => ret.out.error = "AiModelError"
          /\ call.tokens + 4096 = 262144 => ret.out.ok
    /\ (call.fn = "review" /\ ret.done /\ ~call.blank
           /\ call.tokens + 4096 > 262144) =>
          /\ ~ret.out.source
          /\ ret.out.error # None
          /\ ret.out.shown \cap {"critical error", "traceback"} # {}
          /\ ret.out.consumed = 0
          /\ ret.out.saved = <<>>
          /\ ~ret.out.report
          /\ ~ret.out.notified
          /\ phase = "off" /\ pulled = 0 /\ run = NotRun

\* review has ended on a prompt one token over the limit.
C20_Witness ==
    /\ call.fn = "review"
    /\ ~call.blank
    /\ call.tokens + 4096 = 262145
    /\ ret.done
    /\ ~ret.out.source

(***************************************************************************)
(* Frame of the navigator's operations.                                    *)
(***************************************************************************)
\* C21: adding a record appends it last with its flag unset and changes
\* neither the position in the loop, the cursor nor any other record's
\* flag; browsing is entered only by display_issues, on a non-empty list,
\* with the cursor set to 0 each time; display_issues on an empty list
\* returns at once, reading nothing and defining no cursor.
C21_AddAndEntryFrame ==
    /\ [][ Len(issues') # Len(issues) =>
              /\ cmd' = "add_issue"
              /\ Len(issues') = Len(issues) + 1
              /\ SubSeq(issues', 1, Len(issues)) = issues
              /\ ~issues'[Len(issues')].watched
              /\ UNCHANGED <<pc, current_issue_index, stdin, screen, term>>
              /\ pc = "idle" ]_vars
    /\ [][ (pc = "idle" /\ pc' # "idle") =>
              /\ cmd' = "display_issues"
              /\ issues # <<>>
              /\ current_issue_index' = 0 ]_vars
    /\ [][ (pc = "idle" /\ cmd' = "display_issues" /\ issues # <<>>) =>
              /\ pc' = "read"
              /\ current_issue_index' = 0 ]_vars
    /\ [][ (issues = <<>> /\ issues' = <<>>) =>
              /\ UNCHANGED <<pc, current_issue_index, screen, term>>
              /\ stdin # NoInput => stdin' = stdin ]_vars
    /\ [](issues = <<>> => (pc = "idle" /\ current_issue_index = Undefined))

\* A third record has been added after a session that left the cursor on
\* the second of two seen records.
C21_Witness ==
    /\ cmd = "add_issue"
    /\ pc = "idle"
    /\ current_issue_index = 1
    /\ Len(issues) = 3
    /\ issues[1].watched /\ issues[2].watched /\ ~issues[3].watched

(***************************************************************************)
(* Properties of the report.                                               *)
(***************************************************************************)
RECURSIVE EmbedsFrom(_, _, _, _)
\* The pieces of pattern from the j-th on occur in text from the i-th on,
\* in this order.
EmbedsFrom(text, i, pattern, j) ==
    IF j > Len(pattern) THEN TRUE
    ELSE IF i > Len(text) THEN FALSE
    ELSE IF text[i] = pattern[j] THEN EmbedsFrom(text, i + 1, pattern, j + 1)
    ELSE EmbedsFrom(text, i + 1, pattern, j)

RECURSIVE ExpectedPieces(_)
\* What the report must show of each issue: its severity class, its file
\* path, its description, issue after issue.
ExpectedPieces(list) ==
    IF list = <<>> THEN <<>>
    ELSE <<"severity-", Head(list).severity, Head(list).file, Head(list).description>>
         \o ExpectedPieces(Tail(list))

Count(text, piece) == Cardinality({i \in 1..Len(text) : text[i] = piece})

\* C22: generate_mock_report called with all its parameters creates the
\* file at path; the file has, for every issue in list order, its
\* severity-<severity> class, its file path and its description; there are
\* as many issue blocks as issues and as many code blocks as issues with a
\* codeSnippet; an empty list gives the empty-state message and no issue
\* block, a non-empty list no such message.
C22_ReportListsIssuesInOrder ==
    (call.fn = "generate_mock_report" /\ ret.done) =>
        /\ call.path \in DOMAIN ret.out.files
        /\ LET content == ret.out.files[call.path]
               list == call.issues
               snippets == {i \in 1..Len(list) : list[i].codeSnippet \notin {None, ""}}
           IN  /\ EmbedsFrom(content, 1, ExpectedPieces(list), 1)
               /\ Count(content, "<div class=\"issue ") = Len(list)
               /\ Count(content, "<div class=\"code-snippet\"><pre><code>")
                     = Cardinality(snippets)
               /\ \A i \in 1..Len(list) :
                     list[i].codeSnippet = None => Count(content, None) = 0
               /\ (list = <<>>) <=> (Count(content, EmptyState) = 1)
               /\ list # <<>> => Count(content, EmptyState) = 0

\* A report of two issues, the first without a codeSnippet, has been
\* written.
C22_Witness ==
    /\ call.fn = "generate_mock_report"
    /\ ret.done
    /\ Len(call.issues) = 2
    /\ call.issues[1].codeSnippet = None
    /\ call.issues[1].file = "b.py"
    /\ call.issues[2].codeSnippet = "c"
    /\ call.issues[2].file = "a.py"
    /\ Len(ret.out.files["report.html"]) > 0

(***************************************************************************)
(* Properties of the incremental pass.                                     *)
(***************************************************************************)
\* The number of ch among the first n characters of text.
CountIn(text, n, ch) == Cardinality({i \in 1..n : text[i] = ch})

\* '{' minus '}' among the first n characters of text.
Balance(text, n) == CountIn(text, n, "{") - CountIn(text, n, "}")

\* The part of buffer from its first '{' to its last '}', both included;
\* nothing when it has no '{' before a '}'.
FirstToLast(buffer) ==
    LET opens == {i \in 1..Len(buffer) : buffer[i] = "{"}
        closes == {i \in 1..Len(buffer) : buffer[i] = "}"}
    IN  IF opens = {} \/ closes = {} THEN <<>>
        ELSE LET first == CHOOSE i \in opens : \A j \in opens : i <= j
                 last == CHOOSE i \in closes : \A j \in closes : j <= i
             IN  IF first > last THEN <<>> ELSE SubSeq(buffer, first, last)

\* C23: json.loads is tried only right after a character that leaves the
\* depth at exactly 0 with more than 5 characters in the buffer, and what
\* it is given is the buffer from its first '{' to its last '}'.
C23_DecodeOnlyAtBalance ==
    \A i \in 1..Len(attempts) :
        LET a == attempts[i]
        IN  /\ a.depth = 0
            /\ a.depth = Balance(output, a.at)
            /\ Len(a.buffer) > 5
            /\ a.at <= Len(output)
            /\ a.buffer = SubSeq(output, a.at - Len(a.buffer) + 1, a.at)
            /\ a.candidate = FirstToLast(a.buffer)
            /\ i > 1 => attempts[i - 1].at < a.at

\* A candidate was tried and rejected while its object was still open in
\* the text, and a later one was decoded.
C23_Witness ==
    /\ phase = "returned"
    /\ \E i, j \in 1..Len(attempts) :
          /\ i < j
          /\ attempts[i].outcome = "JSONDecodeError"
          /\ attempts[i].candidate # <<>>
          /\ attempts[j].outcome = "emitted"

\* The text after the last '}' of buffer.
AfterLastClose(buffer) ==
    LET closes == {i \in 1..Len(buffer) : buffer[i] = "}"}
    IN  IF closes = {} THEN buffer
        ELSE LET last == CHOOSE i \in closes : \A j \in closes : j <= i
             IN  SubSeq(buffer, last + 1, Len(buffer))

\* The candidates that decoded into a record.
Decoded == {i \in 1..Len(attempts) : attempts[i].outcome = "emitted"}

\* The number of characters the pass has consumed: those pulled, unless the
\* pass was cut short by the error of its last call of json.loads.
Consumed ==
    IF phase = "failed" THEN attempts[Len(attempts)].at ELSE pulled

\* The buffer is the end of the text consumed so far.
BufferIsSuffix ==
    /\ Len(partial_response) <= Consumed
    /\ partial_response =
          SubSeq(output, Consumed - Len(partial_response) + 1, Consumed)

\* The spans of the text the emitted records were decoded from do not
\* overlap: each candidate starts after the character the one before was
\* emitted at.
EmittedSpansDisjoint ==
    \A i, j \in Decoded :
        i < j => attempts[i].at <= attempts[j].at - Len(attempts[j].candidate)

\* The k-th candidate that decoded into a record.
RECURSIVE NthDecoded(_, _)
NthDecoded(k, from) ==
    IF from \in Decoded
    THEN IF k = 1 THEN from ELSE NthDecoded(k - 1, from + 1)
    ELSE NthDecoded(k, from + 1)

\* C24: when a candidate of the incremental pass decodes, exactly one
\* record is emitted (the one the candidate holds) and the buffer becomes
\* the text that followed the last '}' in it; each character of the stream
\* belongs to at most one emitted record, and the buffer is always the end
\* of the text consumed so far.
C24_DecodedCandidateEmitsOne ==
    /\ Cardinality(Decoded) = Len(emitted)
    /\ \A k \in 1..Len(emitted) :
          LET data == JsonLoads(attempts[NthDecoded(k, 1)].candidate)
          IN  /\ data.ok
              /\ emitted[k].file = data.val.m["file"]
    /\ BufferIsSuffix
    /\ EmittedSpansDisjoint
    /\ \A i \in Decoded :
          attempts[i].at = Consumed =>
              partial_response = AfterLastClose(attempts[i].buffer)

\* A record was emitted one character after its closing '}', and that
\* character is what the buffer keeps.
C24_Witness ==
    /\ \E i \in Decoded :
          /\ attempts[i].at = pulled
          /\ attempts[i].buffer[Len(attempts[i].buffer)] # "}"
    /\ partial_response # <<>>
    /\ emitted # <<>>

\* Some prefix of the text consumed holds more '}' than '{'.
ExcessClose(n) == \E m \in 0..n : Balance(output, m) < 0

\* C25: open_brackets is the number of '{' minus the number of '}' among
\* all the characters consumed so far, whatever the buffer was reset to;
\* with fragments of one character every point of the consumption is a
\* state, so open_brackets stays non-negative exactly when no prefix of the
\* text has more '}' than '{', and an excess '}' makes it negative.
C25_DepthIsBraceBalance ==
    /\ [](phase # "off" => open_brackets = Balance(output, Consumed))
    /\ [](phase # "off" /\ ~ExcessClose(Len(output)) => open_brackets >= 0)
    /\ [][(phase' = "stream" /\ pulled' = pulled + 1 /\ output[pulled'] = "}"
              /\ Balance(output, pulled) <= 0)
            => open_brackets' < 0]_vars

\* An excess '}' has been consumed after a record was emitted and the
\* buffer reset: the depth is negative.
C25_Witness ==
    /\ phase = "stream"
    /\ open_brackets < 0
    /\ emitted # <<>>
    /\ Len(partial_response) < pulled

\* The elements of the array located in the text returned by the pass, or
\* none when no span is found or the span is not an array.
LocatedElements ==
    LET span == ArraySpan(full_response)
    IN  IF ~SpanFound(span.start_index, span.end_index) THEN <<>>
        ELSE LET data == JsonLoads(PySlice(full_response, span.start_index,
                                           span.end_index + 1))
             IN  IF data.ok /\ data.val.kind = "arr" THEN data.val.elems
                 ELSE <<>>

\* C26: if an element of the located array does not decode into a record,
\* no element of that array has been saved: the database receives rows
\* only from an array all of whose elements decode.
C26_FailedArraySavesNothing ==
    phase = "parsed" =>
        ((\E i \in 1..Len(LocatedElements) : ~from_dict(LocatedElements[i]).ok)
            => run.saved = <<>>)

\* C27: when a read of the browsing loop meets the end of input (it
\* returns no unit, or raises EOFError), the loop ends as for Quit.
C27_EndOfInputQuits ==
    [][(pc # "idle" /\ stdin \in {EOF, "EOFError"} /\ stdin' = NoInput)
          => (pc' = "idle" /\ cmd' = "Quit")]_vars

\* A read of the first unit of an iteration takes u from the input.
FirstReadOf(u) == pc = "read" /\ stdin = u /\ stdin' = NoInput

\* The unit read is ignored: cursor and seen flags stay, no command is
\* applied, and the loop comes round to its next read.
IgnoredByLoop ==
    /\ current_issue_index' = current_issue_index
    /\ issues' = issues
    /\ cmd' = "Ignored"
    /\ pc' = "read"

\* C28 as stated: every unit other than 'j', 'k', escape and the interrupt
\* unit is ignored.
C28_OtherUnitsIgnored ==
    [][\A u \in (Units \ {EOF}) \ {"j", "k", ESC, CTRL_C} :
          FirstReadOf(u) => IgnoredByLoop]_vars

\* C28: every unit other than 'j', 'J', 'k', 'K', escape and the interrupt
\* unit is ignored: cursor and seen flags are unchanged by it, no command
\* is applied, and the loop continues to its next read.
C28_OtherUnitsIgnoredCaseFolded ==
    [][\A u \in (Units \ {EOF}) \ {"j", "J", "k", "K", ESC, CTRL_C} :
          FirstReadOf(u) => IgnoredByLoop]_vars

\* 'x' was read and ignored with the cursor on the second of several
\* records, one of them not yet seen.
C28_Witness ==
    /\ pc = "read"
    /\ keys = <<"x">>
    /\ cmd = "Ignored"
    /\ current_issue_index = 1
    /\ Len(issues) = 3
    /\ Seen(issues) = {0, 1}

\* The positions in the stream at which the records were emitted.
EmittedAt(log) ==
    LET hits == SelectSeq(log, LAMBDA a : a.outcome = "emitted")
    IN  [k \in 1..Len(hits) |-> hits[k].at]

\* What the pass has made of the text: the records emitted and where, the
\* calls of json.loads, the buffer and the depth.
PassResult(st) ==
    [emitted |-> st.emitted, at |-> EmittedAt(st.attempts),
     attempts |-> st.attempts, partial_response |-> st.partial_response,
     open_brackets |-> st.open_brackets]

\* C29: the incremental pass depends on the text of the stream alone:
\* however the text arrives in fragments, the records emitted, the position
\* at which each is emitted, the buffer and the depth are those of the
\* same text consumed one character after the other.
C29_DeterministicInText ==
    LET sofar == ConsumeChars(Start, SubSeq(output, 1, pulled))
        whole == ConsumeChars(Start, output)
    IN  /\ phase = "stream" => /\ sofar.error = None
                               /\ PassResult(Current) = PassResult(sofar)
        /\ phase \in {"returned", "parsed"} =>
              /\ whole.error = None
              /\ PassResult(Current) = PassResult(whole)
        /\ phase = "failed" => /\ whole.error # None
                               /\ PassResult(Current) = PassResult(whole)

\* A text of more than two fragments has been consumed to its end: two
\* records were emitted, the second one character after its '}', and the
\* buffer holds what followed.
C29_Witness ==
    /\ phase = "returned"
    /\ Len(output) > 2 * MaxFragment
    /\ Len(EmittedAt(attempts)) = 2
    /\ EmittedAt(attempts)[1] < EmittedAt(attempts)[2]
    /\ partial_response # <<>>

====
